---- MODULE Spec2Model ----
(***************************************************************************)
(* Smart ATS Resume Analyzer (src/cover.py): one Streamlit session.       *)
(* The script main() is re-run from the top on every user interaction;    *)
(* st.session_state survives between runs, the locals of main() do not.   *)
(* A run is followed statement by statement (pc), so that the states in   *)
(* which the processing flag is held are states of the model.  The user   *)
(* may click a presented, enabled button at any moment; the click queues  *)
(* a rerun request, requests queued before the next run starts are merged *)
(* (so one run may see both buttons clicked), and a run that reaches an   *)
(* st.* call while a request is queued is stopped there.                  *)
(* Texts are sequences of tokens and json.loads is a parser over them.    *)
(***************************************************************************)
EXTENDS Integers, Sequences, FiniteSets, TLC

(***************************************************************************)
(* Bounds of the model.                                                    *)
(***************************************************************************)
\* longest keyword list the model's replies carry
MaxKeywords == 2

(***************************************************************************)
(* JSON: decoded values, reply texts as token sequences, json.loads.       *)
(***************************************************************************)
StrV(s) == [t |-> "str", s |-> s]
NumV(n) == [t |-> "num", n |-> n]
NullV == [t |-> "null"]
ListV(l) == [t |-> "list", l |-> l]
ObjV(o) == [t |-> "obj", o |-> o]

\* a dict is the sequence of its members in insertion order, keys distinct
EmptyObj == <<>>
Member(key, v) == [k |-> key, v |-> v]
HasKey(d, key) == \E i \in 1..Len(d) : d[i].k = key

\* d[key] = v: a repeated key keeps its place and takes the later value
Put(d, key, v) ==
    IF HasKey(d, key)
    THEN [i \in 1..Len(d) |-> IF d[i].k = key THEN Member(key, v) ELSE d[i]]
    ELSE Append(d, Member(key, v))

\* dict.get(key): the default is dropped, an absent key gives None
GetNoDefault(d, key, default) ==
    IF HasKey(d, key) THEN d[CHOOSE i \in 1..Len(d) : d[i].k = key].v ELSE NullV

\* dict.get(key, default)
Get(d, key, default) ==
    IF HasKey(d, key) THEN d[CHOOSE i \in 1..Len(d) : d[i].k = key].v ELSE default

Tok(k, s, n) == [k |-> k, s |-> s, n |-> n]
P(c) == Tok(c, "", 0)
StrT(s) == Tok("str", s, 0)
NumT(n) == Tok("num", "", n)
NullT == Tok("null", "", 0)
FenceT == Tok("fence", "", 0)
WordT(s) == Tok("word", s, 0)

ParseFail == [ok |-> FALSE]
ParseOk(v, rest) == [ok |-> TRUE, val |-> v, rest |-> rest]

RECURSIVE ParseValue(_), ParseArray(_, _), ParseMembers(_, _)

\* one JSON value at the head of ts
ParseValue(ts) ==
    IF ts = <<>> THEN ParseFail
    ELSE LET h == Head(ts) IN
         CASE h.k = "str" -> ParseOk(StrV(h.s), Tail(ts))
           [] h.k = "num" -> ParseOk(NumV(h.n), Tail(ts))
           [] h.k = "null" -> ParseOk(NullV, Tail(ts))
           [] h.k = "[" ->
                IF Len(ts) >= 2 /\ ts[2].k = "]"
                THEN ParseOk(ListV(<<>>), Tail(Tail(ts)))
                ELSE ParseArray(Tail(ts), <<>>)
           [] h.k = "{" ->
                IF Len(ts) >= 2 /\ ts[2].k = "}"
                THEN ParseOk(ObjV(EmptyObj), Tail(Tail(ts)))
                ELSE ParseMembers(Tail(ts), EmptyObj)
           [] OTHER -> ParseFail

\* the elements of an array after "[" or ",": value, then "," or "]"
ParseArray(ts, acc) ==
    LET r == ParseValue(ts) IN
    IF ~r.ok \/ r.rest = <<>> THEN ParseFail
    ELSE LET sep == Head(r.rest) IN
         CASE sep.k = "]" -> ParseOk(ListV(Append(acc, r.val)), Tail(r.rest))
           [] sep.k = "," -> ParseArray(Tail(r.rest), Append(acc, r.val))
           [] OTHER -> ParseFail

\* the members of an object after "{" or ",": string, ":", value, then "," or "}"
ParseMembers(ts, acc) ==
    IF Len(ts) < 2 \/ ts[1].k # "str" \/ ts[2].k # ":" THEN ParseFail
    ELSE LET r == ParseValue(Tail(Tail(ts))) IN
         IF ~r.ok \/ r.rest = <<>> THEN ParseFail
         ELSE LET sep == Head(r.rest)
                  d == Put(acc, ts[1].s, r.val) IN
              CASE sep.k = "}" -> ParseOk(ObjV(d), Tail(r.rest))
                [] sep.k = "," -> ParseMembers(Tail(r.rest), d)
                [] OTHER -> ParseFail

\* a lenient decoder: text that is not JSON decodes to the empty dict
json_loads_or_empty(ts) ==
    LET r == ParseValue(ts) IN
    IF r.ok /\ r.rest = <<>> THEN [ok |-> TRUE, val |-> r.val]
    ELSE [ok |-> TRUE, val |-> ObjV(EmptyObj)]

\* json.loads: the whole text is one JSON value, or the call raises
json_loads(ts) ==
    LET r == ParseValue(ts) IN
    IF r.ok /\ r.rest = <<>> THEN [ok |-> TRUE, val |-> r.val] ELSE ParseFail

(***************************************************************************)
(* The replies the hosted model may give, written out as text.             *)
(***************************************************************************)
RECURSIVE Dumps(_), DumpList(_, _), DumpMembers(_, _)

\* the JSON text of a value
Dumps(v) ==
    CASE v.t = "str" -> <<StrT(v.s)>>
      [] v.t = "num" -> <<NumT(v.n)>>
      [] v.t = "null" -> <<NullT>>
      [] v.t = "list" -> <<P("[")>> \o DumpList(v.l, 1) \o <<P("]")>>
      [] v.t = "obj" -> <<P("{")>> \o DumpMembers(v.o, 1) \o <<P("}")>>

DumpList(l, i) ==
    IF i > Len(l) THEN <<>>
    ELSE Dumps(l[i]) \o (IF i < Len(l) THEN <<P(",")>> ELSE <<>>) \o DumpList(l, i + 1)

DumpMembers(d, i) ==
    IF i > Len(d) THEN <<>>
    ELSE <<StrT(d[i].k), P(":")>> \o Dumps(d[i].v)
            \o (IF i < Len(d) THEN <<P(",")>> ELSE <<>>)
            \o DumpMembers(d, i + 1)

Absent == [t |-> "absent"]
Opt(S) == S \cup {Absent}
Field(key, v) == IF v.t = "absent" THEN <<>> ELSE <<Member(key, v)>>

KeywordStrings == {"K8s", "Go"}
KeywordLists ==
    UNION {[1..n -> {StrV(k) : k \in KeywordStrings}] : n \in 0..MaxKeywords}

\* what a reply may carry under each key, well typed or not
MatchValues == {StrV("80%"), NumV(80), ListV(<<>>)}
KeywordValues ==
    {ListV(l) : l \in KeywordLists} \cup {ListV(<<NumV(7)>>), StrV("Go"), NullV, NumV(5)}
SummaryValues == {StrV("Strong")}

ReplyObjects ==
    {ObjV(Field("JD Match", m) \o Field("MissingKeywords", k) \o Field("Profile Summary", s)) :
        m \in Opt(MatchValues), k \in Opt(KeywordValues), s \in Opt(SummaryValues)}
ReplyNonObjects == {ListV(<<>>), ListV(<<StrV("Go")>>), StrV("80%"), NumV(80), NullV}

GoodReply ==
    ObjV(<<Member("JD Match", StrV("80%")),
           Member("MissingKeywords", ListV(<<StrV("K8s"), StrV("Go")>>)),
           Member("Profile Summary", StrV("Strong"))>>)

\* texts that are not JSON: fenced, wrapped in prose, cut short, trailing comma
Fenced(ts) == <<FenceT, WordT("json")>> \o ts \o <<FenceT>>
Prosed(ts) == <<WordT("Here"), WordT("is"), WordT("the"), WordT("JSON")>> \o ts
Truncated(ts) == SubSeq(ts, 1, Len(ts) - 1)
TrailingComma(ts) == SubSeq(ts, 1, Len(ts) - 1) \o <<P(","), ts[Len(ts)]>>
NotJsonReplies ==
    {Fenced(Dumps(GoodReply)), Prosed(Dumps(GoodReply)), Truncated(Dumps(GoodReply)),
     TrailingComma(Dumps(GoodReply)), <<WordT("Sorry")>>}

\* valid JSON that repeats a key
RepeatedKeyReply ==
    <<P("{"), StrT("JD Match"), P(":"), StrT("80%"), P(","),
      StrT("JD Match"), P(":"), NumT(80), P("}")>>

AnalysisReplies ==
    {Dumps(v) : v \in ReplyObjects \cup ReplyNonObjects}
        \cup NotJsonReplies \cup {RepeatedKeyReply}

CoverLetterReplies == {"Dear Acme", "Dear hiring manager"}

(***************************************************************************)
(* Python and Streamlit behaviour the handlers rely on.                    *)
(***************************************************************************)
\* bool(v)
Truthy(v) ==
    CASE v.t = "str" -> v.s # ""
      [] v.t = "num" -> v.n # 0
      [] v.t = "null" -> FALSE
      [] v.t = "list" -> v.l # <<>>
      [] v.t = "obj" -> v.o # <<>>

\* the characters of the strings of this model
Chars(s) ==
    CASE s = "Go" -> <<"G", "o">>
      [] s = "K8s" -> <<"K", "8", "s">>
      [] s = "80%" -> <<"8", "0", "%">>
      [] s = "Strong" -> <<"S", "t", "r", "o", "n", "g">>
      [] s = "" -> <<>>

\* iter(v): a list gives its elements, a str its characters, a dict its keys
Iterable(v) == v.t \in {"list", "str", "obj"}
Items(v) ==
    CASE v.t = "list" -> v.l
      [] v.t = "str" -> [i \in 1..Len(Chars(v.s)) |-> StrV(Chars(v.s)[i])]
      [] v.t = "obj" -> [i \in 1..Len(v.o) |-> StrV(v.o[i].k)]

\* sep.join(v) raises TypeError unless v is an iterable of str
JoinRaises(v) == ~Iterable(v) \/ \E i \in 1..Len(Items(v)) : Items(v)[i].t # "str"

RECURSIVE JoinFrom(_, _, _)
JoinFrom(sep, items, i) ==
    IF i > Len(items) THEN <<>>
    ELSE <<items[i].s>> \o (IF i < Len(items) THEN <<sep>> ELSE <<>>)
            \o JoinFrom(sep, items, i + 1)

\* sep.join(v): the text, as its pieces in order
TextV(parts) == [t |-> "text", parts |-> parts]
Join(sep, v) == TextV(JoinFrom(sep, Items(v), 1))

\* st.metric takes a str, a number or None as its value
MetricAccepts(v) == v.t \in {"str", "num", "null"}

\* only a dict has .get among the values json.loads returns
HasGet(v) == v.t = "obj"

(***************************************************************************)
(* helper.py: the collaborators main() imports.                            *)
(***************************************************************************)
NoFile == "None"
Files == {"resume.pdf", "corrupt.pdf"}

\* extract_pdf_text: the text of a readable PDF, or the call raises
extract_pdf_text(f) ==
    IF f = "resume.pdf" THEN [ok |-> TRUE, text |-> "resume text"] ELSE [ok |-> FALSE]

\* prepare_prompt: the analysis instruction embedding both texts
prepare_prompt(resume, description) == <<"analysis", resume, description>>

(***************************************************************************)
(* State.                                                                  *)
(***************************************************************************)
VARIABLES
    GOOGLE_API_KEY,     \* the environment variable main() reads
    key_accepted,       \* whether configure_genai accepts that key
    session_state,      \* st.session_state: survives script runs
    w,                  \* the browser's widget values
    pend,               \* the rerun request queued for the script runner
    page,               \* the form and the two buttons as the browser presents them
    pc,                 \* the script's position; "idle" when no run is under way
    status,             \* how the current or the last run stands
    trig,               \* the buttons whose click started this run
    rendered,           \* the elements this run has rendered so far
    out,                \* what this run has displayed, in order
    jd, uploaded_file, company_name, job_title, personal_message,
    resume_text, input_prompt, response, response_json,
    match_percentage, missing_keywords,
    cover_letter_prompt, cover_letter,
    extract_calls,      \* calls of extract_pdf_text in this run
    api_calls,          \* calls of get_gemini_response in this run, by handler
    outstanding,        \* calls of get_gemini_response that have not returned
    stub,               \* what stands behind get_gemini_response in this session
    prev                \* the last Analyze that left its try statement, under a stub

env == <<GOOGLE_API_KEY, key_accepted, stub>>
locF == <<jd, uploaded_file, company_name, job_title, personal_message>>
locA == <<resume_text, input_prompt, response, response_json,
          match_percentage, missing_keywords>>
locC == <<cover_letter_prompt, cover_letter>>
ctl == <<pc, status, session_state, out, prev>>
calls == <<extract_calls, api_calls, outstanding>>
vars == <<env, session_state, w, pend, page, pc, status, trig, rendered, out,
          locF, locA, locC, calls, prev>>

Buttons == {"analyze", "cover"}
Elements == {"form"} \cup Buttons

\* a local of main() that no statement has assigned yet
Unset == "<unset>"
NoValue == [t |-> "unset"]
NoText == <<Tok("unset", "", 0)>>

JobDescriptions == {"", "Backend engineer"}
CompanyNames == {"", "Acme"}
JobTitles == {"", "Engineer"}
PersonalMessages == {"", "Hello"}
WidgetValues ==
    [jd : JobDescriptions, uploaded_file : {NoFile} \cup Files,
     company_name : CompanyNames, job_title : JobTitles,
     personal_message : PersonalMessages]

NoRequest == [req |-> FALSE, clicked |-> {}]

\* what the handlers put on the page
ErrorEl(e) == [el |-> "error", arg |-> StrV(e)]
WarningEl(m) == [el |-> "warning", arg |-> StrV(m)]
SuccessEl == [el |-> "success", arg |-> StrV("Analysis Complete!")]
MetricEl(v) == [el |-> "metric", arg |-> v]
SubheaderEl(m) == [el |-> "subheader", arg |-> StrV(m)]
WriteEl(v) == [el |-> "write", arg |-> v]
DownloadEl(data) == [el |-> "download", arg |-> StrV(data), file_name |-> "cover_letter.txt"]

\* the hosted model: any reply, or a failure, on every call
Live == [kind |-> "any", text |-> <<>>]

\* deterministic stand-ins for the model: the analysis prompt always fails, or
\* always gets the same text
Stubs ==
    {[kind |-> "raise", text |-> <<>>]} \cup
    {[kind |-> "reply", text |-> r] :
        r \in {Dumps(GoodReply), Fenced(Dumps(GoodReply)), Dumps(NullV),
               Dumps(ObjV(EmptyObj)), RepeatedKeyReply,
               Dumps(ObjV(Field("MissingKeywords", NumV(5))))}}

MaxCounted == 2
NoPrev == [count |-> 0, jd |-> Unset, uploaded_file |-> Unset, out |-> <<>>,
           ss |-> [k \in {} |-> FALSE]]

Start ==
    /\ GOOGLE_API_KEY \in {"", "key"}
    /\ key_accepted \in BOOLEAN
    /\ session_state = [k \in {} |-> FALSE]
    /\ w = [jd |-> "", uploaded_file |-> NoFile, company_name |-> "",
            job_title |-> "", personal_message |-> ""]
    /\ pend = [req |-> TRUE, clicked |-> {}]
    /\ page = [e \in Elements |-> "absent"]
    /\ pc = "idle"
    /\ status = "none"
    /\ trig = {}
    /\ rendered = {}
    /\ out = <<>>
    /\ jd = Unset /\ uploaded_file = Unset /\ company_name = Unset
    /\ job_title = Unset /\ personal_message = Unset
    /\ resume_text = Unset /\ input_prompt = <<>> /\ response = NoText
    /\ response_json = NoValue /\ match_percentage = NoValue
    /\ missing_keywords = NoValue
    /\ cover_letter_prompt = <<>> /\ cover_letter = Unset
    /\ extract_calls = 0 /\ api_calls = [b \in Buttons |-> 0] /\ outstanding = 0
    /\ prev = NoPrev

Init == Start /\ stub = Live

InitStub == Start /\ stub \in Stubs

(***************************************************************************)
(* The user.  A click or an edit queues a rerun request; requests that     *)
(* arrive before the next run starts are merged, clicks included.  An edit *)
(* made while a run is under way reaches the script exactly as a rerun     *)
(* request during the run followed by the edit before the next run starts, *)
(* so edits are taken between runs.                                        *)
(***************************************************************************)
UserEdit(field, value) ==
    /\ pc = "idle"
    /\ page["form"] # "absent"
    /\ w[field] # value
    /\ w' = [w EXCEPT ![field] = value]
    /\ pend' = [pend EXCEPT !.req = TRUE]
    /\ UNCHANGED <<env, ctl, page, trig, rendered, locF, locA, locC, calls>>

\* only a button that is presented and not disabled takes a click
UserClick(b) ==
    /\ page[b] = "enabled"
    /\ b \notin pend.clicked
    /\ pend' = [req |-> TRUE, clicked |-> pend.clicked \cup {b}]
    /\ UNCHANGED <<env, ctl, w, page, trig, rendered, locF, locA, locC, calls>>

\* the "Rerun" command of the page menu
UserRerun ==
    /\ ~pend.req
    /\ pend' = [pend EXCEPT !.req = TRUE]
    /\ UNCHANGED <<env, ctl, w, page, trig, rendered, locF, locA, locC, calls>>

(***************************************************************************)
(* The script runner.                                                      *)
(***************************************************************************)
\* the Analyze handler leaves its try statement for the second button
LeavesAnalyze(p) == p = "btn_cl" /\ pc \notin {"btn_an", "an_validate"}

Ctl(p, st, ss, o) ==
    /\ pc' = p /\ status' = st /\ session_state' = ss /\ out' = o
    /\ prev' = IF stub.kind # "any" /\ LeavesAnalyze(p)
               THEN [count |-> IF prev.count < MaxCounted THEN prev.count + 1
                               ELSE MaxCounted,
                     jd |-> jd, uploaded_file |-> uploaded_file, out |-> o, ss |-> ss]
               ELSE prev

\* a queued request stops the run at its next st.* call: the exception is no
\* Exception, so no except clause sees it, and finally clauses run
Stop(ss) == Ctl("end", "interrupted", ss, out)

RunStart ==
    /\ pc = "idle"
    /\ pend.req
    /\ trig' = pend.clicked
    /\ pend' = NoRequest
    /\ rendered' = {}
    /\ extract_calls' = 0
    /\ api_calls' = [b \in Buttons |-> 0]
    /\ Ctl("init", "running", session_state, <<>>)
    /\ UNCHANGED <<env, w, page, locF, locA, locC, outstanding>>

\* main() has returned or was stopped: its locals are gone, and unless the run
\* was stopped for a rerun the browser drops what the run did not render again
RunEnd ==
    /\ pc = "end"
    /\ pc' = "idle"
    /\ page' = IF status = "interrupted" THEN page
               ELSE [e \in Elements |-> IF e \in rendered THEN page[e] ELSE "absent"]
    /\ trig' = {}
    /\ rendered' = {}
    /\ jd' = Unset /\ uploaded_file' = Unset /\ company_name' = Unset
    /\ job_title' = Unset /\ personal_message' = Unset
    /\ resume_text' = Unset /\ input_prompt' = <<>> /\ response' = NoText
    /\ response_json' = NoValue /\ match_percentage' = NoValue
    /\ missing_keywords' = NoValue
    /\ cover_letter_prompt' = <<>> /\ cover_letter' = Unset
    /\ UNCHANGED <<env, status, session_state, out, prev, w, pend, calls>>

(***************************************************************************)
(* main(): start-up and the form.                                          *)
(***************************************************************************)
init_session_state(ss) ==
    IF "processing" \notin DOMAIN ss
    THEN [k \in (DOMAIN ss) \cup {"processing"} |->
            IF k = "processing" THEN FALSE ELSE ss[k]]
    ELSE ss

\* start-up that reports a rejected key and carries on to the form
StartupNoReturn ==
    /\ pc = "init"
    /\ LET ss == init_session_state(session_state) IN
       IF GOOGLE_API_KEY = ""
       THEN IF pend.req THEN Stop(ss)
            ELSE Ctl("end", "halted", ss,
                     Append(out, ErrorEl("Please set the GOOGLE_API_KEY in your .env file")))
       ELSE IF ~key_accepted
       THEN IF pend.req THEN Stop(ss)
            ELSE Ctl("form", "running", ss, Append(out, ErrorEl("Failed to configure API")))
       ELSE Ctl("form", "running", ss, out)
    /\ UNCHANGED <<env, w, pend, page, trig, rendered, locF, locA, locC, calls>>

Startup ==
    /\ pc = "init"
    /\ LET ss == init_session_state(session_state) IN
       IF GOOGLE_API_KEY = ""
       THEN IF pend.req THEN Stop(ss)
            ELSE Ctl("end", "halted", ss,
                     Append(out, ErrorEl("Please set the GOOGLE_API_KEY in your .env file")))
       ELSE IF ~key_accepted
       THEN IF pend.req THEN Stop(ss)
            ELSE Ctl("end", "halted", ss, Append(out, ErrorEl("Failed to configure API")))
       ELSE Ctl("form", "running", ss, out)
    /\ UNCHANGED <<env, w, pend, page, trig, rendered, locF, locA, locC, calls>>

Form ==
    /\ pc = "form"
    /\ IF pend.req
       THEN Stop(session_state) /\ UNCHANGED <<page, rendered, locF>>
       ELSE /\ Ctl("btn_an", "running", session_state, out)
            /\ page' = [page EXCEPT !["form"] = "enabled"]
            /\ rendered' = rendered \cup {"form"}
            /\ jd' = w.jd
            /\ uploaded_file' = w.uploaded_file
            /\ company_name' = w.company_name
            /\ job_title' = w.job_title
            /\ personal_message' = w.personal_message
    /\ UNCHANGED <<env, w, pend, trig, locA, locC, calls>>

(***************************************************************************)
(* main(): the Analyze Resume button and its handler.                      *)
(***************************************************************************)
Processing == session_state["processing"]
Released == [session_state EXCEPT !["processing"] = FALSE]
Acquired == [session_state EXCEPT !["processing"] = TRUE]

\* st.button(label, disabled = st.session_state.processing)
Button(b) == [page EXCEPT ![b] = IF Processing THEN "disabled" ELSE "enabled"]

ButtonAnalyze ==
    /\ pc = "btn_an"
    /\ IF pend.req
       THEN Stop(session_state) /\ UNCHANGED <<page, rendered>>
       ELSE /\ page' = Button("analyze")
            /\ rendered' = rendered \cup {"analyze"}
            /\ Ctl(IF "analyze" \in trig THEN "an_validate" ELSE "btn_cl",
                   "running", session_state, out)
    /\ UNCHANGED <<env, w, pend, trig, locF, locA, locC, calls>>

\* validation that forgets the uploaded file
AnalyzeValidateJdOnly ==
    /\ pc = "an_validate"
    /\ IF jd = ""
       THEN IF pend.req THEN Stop(session_state)
            ELSE Ctl("end", "returned", session_state,
                     Append(out, WarningEl("Please provide a job description.")))
       ELSE Ctl("an_spinner", "running", Acquired, out)
    /\ UNCHANGED <<env, w, pend, page, trig, rendered, locF, locA, locC, calls>>

\* the flag set before the inputs are validated, and kept on a validation return
AnalyzeValidateAcquireFirst ==
    /\ pc = "an_validate"
    /\ IF jd = ""
       THEN IF pend.req THEN Stop(Acquired)
            ELSE Ctl("end", "returned", Acquired,
                     Append(out, WarningEl("Please provide a job description.")))
       ELSE IF uploaded_file = NoFile
       THEN IF pend.req THEN Stop(Acquired)
            ELSE Ctl("end", "returned", Acquired,
                     Append(out, WarningEl("Please upload a resume in PDF format.")))
       ELSE Ctl("an_spinner", "running", Acquired, out)
    /\ UNCHANGED <<env, w, pend, page, trig, rendered, locF, locA, locC, calls>>

\* validation that warns and falls through to the rest of the script
AnalyzeValidateNoReturn ==
    /\ pc = "an_validate"
    /\ IF jd = ""
       THEN IF pend.req THEN Stop(session_state)
            ELSE Ctl("btn_cl", "running", session_state,
                     Append(out, WarningEl("Please provide a job description.")))
       ELSE IF uploaded_file = NoFile
       THEN IF pend.req THEN Stop(session_state)
            ELSE Ctl("btn_cl", "running", session_state,
                     Append(out, WarningEl("Please upload a resume in PDF format.")))
       ELSE Ctl("an_spinner", "running", Acquired, out)
    /\ UNCHANGED <<env, w, pend, page, trig, rendered, locF, locA, locC, calls>>

AnalyzeValidate ==
    /\ pc = "an_validate"
    /\ IF jd = ""
       THEN IF pend.req THEN Stop(session_state)
            ELSE Ctl("end", "returned", session_state,
                     Append(out, WarningEl("Please provide a job description.")))
       ELSE IF uploaded_file = NoFile
       THEN IF pend.req THEN Stop(session_state)
            ELSE Ctl("end", "returned", session_state,
                     Append(out, WarningEl("Please upload a resume in PDF format.")))
       ELSE Ctl("an_spinner", "running", Acquired, out)
    /\ UNCHANGED <<env, w, pend, page, trig, rendered, locF, locA, locC, calls>>

\* the except clause without the finally clause: the flag is not released
AnalyzeCaughtNoFinally(e) ==
    IF pend.req THEN Stop(session_state)
    ELSE Ctl("btn_cl", "running", session_state, Append(out, ErrorEl(e)))

\* an except clause that sends a failed action back to the model call once
AnalyzeCaughtRetry(e) ==
    IF pend.req THEN Stop(Released)
    ELSE IF api_calls["analyze"] = 1
    THEN Ctl("an_call", "running", session_state, out)
    ELSE Ctl("btn_cl", "running", Released, Append(out, ErrorEl(e)))

\* except Exception: st.error(...), then finally: processing = False
AnalyzeCaught(e) ==
    IF pend.req THEN Stop(Released)
    ELSE Ctl("btn_cl", "running", Released, Append(out, ErrorEl(e)))

\* an st.* call inside the try block that displays element el and goes on to p
AnalyzeShow(el, p) ==
    IF pend.req THEN Stop(Released)
    ELSE Ctl(p, "running", session_state, Append(out, el))

AnalyzeSpinner ==
    /\ pc = "an_spinner"
    /\ IF pend.req THEN Stop(Released)
       ELSE Ctl("an_extract", "running", session_state, out)
    /\ UNCHANGED <<env, w, pend, page, trig, rendered, locF, locA, locC, calls>>

\* extraction whose failure is swallowed: the action goes on with no text
AnalyzeExtractSwallow ==
    /\ pc = "an_extract"
    /\ extract_calls' = extract_calls + 1
    /\ LET r == extract_pdf_text(uploaded_file)
           text == IF r.ok THEN r.text ELSE "" IN
       /\ resume_text' = text
       /\ input_prompt' = prepare_prompt(text, jd)
       /\ Ctl("an_call", "running", session_state, out)
    /\ UNCHANGED <<env, w, pend, page, trig, rendered, locF, locC, response,
                   response_json, match_percentage, missing_keywords,
                   api_calls, outstanding>>

\* the upload's stream left at its end by the read before: extraction fails on
\* a file that was already read
AnalyzeExtractConsumed ==
    /\ pc = "an_extract"
    /\ extract_calls' = extract_calls + 1
    /\ LET r == extract_pdf_text(uploaded_file) IN
       IF r.ok /\ ~(prev.count > 0 /\ prev.uploaded_file = uploaded_file)
       THEN /\ resume_text' = r.text
            /\ input_prompt' = prepare_prompt(r.text, jd)
            /\ Ctl("an_call", "running", session_state, out)
       ELSE /\ AnalyzeCaught("ExtractionError")
            /\ UNCHANGED <<resume_text, input_prompt>>
    /\ UNCHANGED <<env, w, pend, page, trig, rendered, locF, locC, response,
                   response_json, match_percentage, missing_keywords,
                   api_calls, outstanding>>

AnalyzeExtract ==
    /\ pc = "an_extract"
    /\ extract_calls' = extract_calls + 1
    /\ LET r == extract_pdf_text(uploaded_file) IN
       IF r.ok
       THEN /\ resume_text' = r.text
            /\ input_prompt' = prepare_prompt(r.text, jd)
            /\ Ctl("an_call", "running", session_state, out)
       ELSE /\ AnalyzeCaught("ExtractionError")
            /\ UNCHANGED <<resume_text, input_prompt>>
    /\ UNCHANGED <<env, w, pend, page, trig, rendered, locF, locC, response,
                   response_json, match_percentage, missing_keywords,
                   api_calls, outstanding>>

\* the call handed to a background thread: the handler does not wait for it
AnalyzeCallDetached ==
    /\ pc = "an_call"
    /\ api_calls' = [api_calls EXCEPT !["analyze"] = @ + 1]
    /\ outstanding' = outstanding + 1
    /\ Ctl("btn_cl", "running", Released, out)
    /\ UNCHANGED <<env, w, pend, page, trig, rendered, locF, locA, locC, extract_calls>>

\* get_gemini_response(input_prompt) is entered
AnalyzeCall ==
    /\ pc = "an_call"
    /\ api_calls' = [api_calls EXCEPT !["analyze"] = @ + 1]
    /\ outstanding' = outstanding + 1
    /\ Ctl("an_wait", "running", session_state, out)
    /\ UNCHANGED <<env, w, pend, page, trig, rendered, locF, locA, locC, extract_calls>>

\* get_gemini_response returns some text or raises
AnalyzeReturn ==
    /\ pc = "an_wait"
    /\ outstanding' = outstanding - 1
    /\ \/ /\ stub.kind \in {"any", "raise"}
          /\ AnalyzeCaught("GenerationError")
          /\ UNCHANGED response
       \/ \E r \in AnalysisReplies :
             /\ stub.kind = "any" \/ (stub.kind = "reply" /\ r = stub.text)
             /\ response' = r
             /\ Ctl("an_parse", "running", session_state, out)
    /\ UNCHANGED <<env, w, pend, page, trig, rendered, locF, locC, resume_text,
                   input_prompt, response_json, match_percentage, missing_keywords,
                   extract_calls, api_calls>>

AnalyzeParse ==
    /\ pc = "an_parse"
    /\ LET r == json_loads(response) IN
       IF r.ok
       THEN /\ response_json' = r.val
            /\ Ctl("an_success", "running", session_state, out)
       ELSE /\ AnalyzeCaught("JSONDecodeError")
            /\ UNCHANGED response_json
    /\ UNCHANGED <<env, w, pend, page, trig, rendered, locF, locC, resume_text,
                   input_prompt, response, match_percentage, missing_keywords, calls>>

AnalyzeSuccess ==
    /\ pc = "an_success"
    /\ AnalyzeShow(SuccessEl, "an_metric")
    /\ UNCHANGED <<env, w, pend, page, trig, rendered, locF, locA, locC, calls>>

AnalyzeMetric ==
    /\ pc = "an_metric"
    /\ IF ~HasGet(response_json)
       THEN AnalyzeCaught("AttributeError") /\ UNCHANGED match_percentage
       ELSE LET m == Get(response_json.o, "JD Match", StrV("N/A")) IN
            /\ match_percentage' = m
            /\ IF MetricAccepts(m)
               THEN AnalyzeShow(MetricEl(m), "an_kw_header")
               ELSE AnalyzeCaught("TypeError")
    /\ UNCHANGED <<env, w, pend, page, trig, rendered, locF, locC, resume_text,
                   input_prompt, response, response_json, missing_keywords, calls>>

AnalyzeKeywordsHeader ==
    /\ pc = "an_kw_header"
    /\ AnalyzeShow(SubheaderEl("Missing Keywords"), "an_kw")
    /\ UNCHANGED <<env, w, pend, page, trig, rendered, locF, locA, locC, calls>>

AnalyzeKeywords ==
    /\ pc = "an_kw"
    /\ LET k == Get(response_json.o, "MissingKeywords", ListV(<<>>)) IN
       /\ missing_keywords' = k
       /\ IF Truthy(k)
          THEN IF JoinRaises(k)
               THEN AnalyzeCaught("TypeError")
               ELSE AnalyzeShow(WriteEl(Join(", ", k)), "an_sum_header")
          ELSE AnalyzeShow(WriteEl(StrV("No critical missing keywords found!")),
                           "an_sum_header")
    /\ UNCHANGED <<env, w, pend, page, trig, rendered, locF, locC, resume_text,
                   input_prompt, response, response_json, match_percentage, calls>>

AnalyzeSummaryHeader ==
    /\ pc = "an_sum_header"
    /\ AnalyzeShow(SubheaderEl("Profile Summary"), "an_summary")
    /\ UNCHANGED <<env, w, pend, page, trig, rendered, locF, locA, locC, calls>>

\* the last statement of the try block, then finally: processing = False
AnalyzeSummary ==
    /\ pc = "an_summary"
    /\ IF pend.req THEN Stop(Released)
       ELSE Ctl("btn_cl", "running", Released,
                Append(out, WriteEl(Get(response_json.o, "Profile Summary",
                                        StrV("No summary available")))))
    /\ UNCHANGED <<env, w, pend, page, trig, rendered, locF, locA, locC, calls>>

(***************************************************************************)
(* main(): the Generate Cover Letter button and its handler.               *)
(***************************************************************************)
ButtonCover ==
    /\ pc = "btn_cl"
    /\ IF pend.req
       THEN Stop(session_state) /\ UNCHANGED <<page, rendered>>
       ELSE /\ page' = Button("cover")
            /\ rendered' = rendered \cup {"cover"}
            /\ IF "cover" \in trig
               THEN Ctl("cl_validate", "running", session_state, out)
               ELSE Ctl("end", "completed", session_state, out)
    /\ UNCHANGED <<env, w, pend, trig, locF, locA, locC, calls>>

\* validation that rejects only when both fields are empty
CoverValidateBothEmpty ==
    /\ pc = "cl_validate"
    /\ IF company_name = "" /\ job_title = ""
       THEN IF pend.req THEN Stop(session_state)
            ELSE Ctl("end", "returned", session_state,
                     Append(out, WarningEl("Please provide company name and job title for the cover letter.")))
       ELSE Ctl("cl_spinner", "running", Acquired, out)
    /\ UNCHANGED <<env, w, pend, page, trig, rendered, locF, locA, locC, calls>>

CoverValidate ==
    /\ pc = "cl_validate"
    /\ IF company_name = "" \/ job_title = ""
       THEN IF pend.req THEN Stop(session_state)
            ELSE Ctl("end", "returned", session_state,
                     Append(out, WarningEl("Please provide company name and job title for the cover letter.")))
       ELSE Ctl("cl_spinner", "running", Acquired, out)
    /\ UNCHANGED <<env, w, pend, page, trig, rendered, locF, locA, locC, calls>>

\* except Exception: st.error(...), then finally: processing = False
CoverCaught(e) ==
    IF pend.req THEN Stop(Released)
    ELSE Ctl("end", "completed", Released, Append(out, ErrorEl(e)))

CoverShow(el, p) ==
    IF pend.req THEN Stop(Released)
    ELSE Ctl(p, "running", session_state, Append(out, el))

CoverSpinner ==
    /\ pc = "cl_spinner"
    /\ IF pend.req THEN Stop(Released)
       ELSE Ctl("cl_prompt", "running", session_state, out)
    /\ UNCHANGED <<env, w, pend, page, trig, rendered, locF, locA, locC, calls>>

\* the f-string reads resume_text, which only line 81 assigns
CoverPrompt ==
    /\ pc = "cl_prompt"
    /\ IF resume_text = Unset
       THEN CoverCaught("NameError") /\ UNCHANGED cover_letter_prompt
       ELSE /\ cover_letter_prompt' =
                  <<"cover", job_title, company_name, personal_message, resume_text, jd>>
            /\ Ctl("cl_call", "running", session_state, out)
    /\ UNCHANGED <<env, w, pend, page, trig, rendered, locF, locA, cover_letter, calls>>

CoverCall ==
    /\ pc = "cl_call"
    /\ api_calls' = [api_calls EXCEPT !["cover"] = @ + 1]
    /\ outstanding' = outstanding + 1
    /\ Ctl("cl_wait", "running", session_state, out)
    /\ UNCHANGED <<env, w, pend, page, trig, rendered, locF, locA, locC, extract_calls>>

CoverReturn ==
    /\ pc = "cl_wait"
    /\ outstanding' = outstanding - 1
    /\ \/ /\ CoverCaught("GenerationError")
          /\ UNCHANGED cover_letter
       \/ \E r \in CoverLetterReplies :
             /\ cover_letter' = r
             /\ Ctl("cl_header", "running", session_state, out)
    /\ UNCHANGED <<env, w, pend, page, trig, rendered, locF, locA, cover_letter_prompt,
                   extract_calls, api_calls>>

CoverHeader ==
    /\ pc = "cl_header"
    /\ CoverShow(SubheaderEl("Generated Cover Letter"), "cl_write")
    /\ UNCHANGED <<env, w, pend, page, trig, rendered, locF, locA, locC, calls>>

CoverWrite ==
    /\ pc = "cl_write"
    /\ CoverShow(WriteEl(StrV(cover_letter)), "cl_download")
    /\ UNCHANGED <<env, w, pend, page, trig, rendered, locF, locA, locC, calls>>

\* the last statement of the try block, then finally: processing = False
CoverDownload ==
    /\ pc = "cl_download"
    /\ IF pend.req THEN Stop(Released)
       ELSE Ctl("end", "completed", Released, Append(out, DownloadEl(cover_letter)))
    /\ UNCHANGED <<env, w, pend, page, trig, rendered, locF, locA, locC, calls>>

Next ==
    \/ \E f \in DOMAIN w : \E v \in {x[f] : x \in WidgetValues} : UserEdit(f, v)
    \/ \E b \in Buttons : UserClick(b)
    \/ UserRerun
    \/ RunStart
    \/ RunEnd
    \/ Startup
    \/ Form
    \/ ButtonAnalyze
    \/ AnalyzeValidate
    \/ AnalyzeSpinner
    \/ AnalyzeExtract
    \/ AnalyzeCall
    \/ AnalyzeReturn
    \/ AnalyzeParse
    \/ AnalyzeSuccess
    \/ AnalyzeMetric
    \/ AnalyzeKeywordsHeader
    \/ AnalyzeKeywords
    \/ AnalyzeSummaryHeader
    \/ AnalyzeSummary
    \/ ButtonCover
    \/ CoverValidate
    \/ CoverSpinner
    \/ CoverPrompt
    \/ CoverCall
    \/ CoverReturn
    \/ CoverHeader
    \/ CoverWrite
    \/ CoverDownload

Spec == Init /\ [][Next]_vars

\* the same program with a deterministic stub in place of the hosted model
SpecStub == InitStub /\ [][Next]_vars

(***************************************************************************)
(* Properties.                                                             *)
(***************************************************************************)
Count(kind) == Cardinality({i \in 1..Len(out) : out[i].el = kind})
ResultKinds == {"success", "metric", "subheader", "write"}

\* the Analyze handler has just left its try statement in this run
AnalyzeDone == pc = "btn_cl" /\ "analyze" \in trig

\* the four parts of the analysis result, in order, and nothing else
FullResult ==
    /\ Len(out) = 6
    /\ out[1] = SuccessEl
    /\ out[2].el = "metric"
    /\ out[3] = SubheaderEl("Missing Keywords")
    /\ out[4].el = "write"
    /\ out[5] = SubheaderEl("Profile Summary")
    /\ out[6].el = "write"

\* C1: guaranteed release. Whatever happened in a handler (success, extraction
\* failure, model-call failure, JSON parse failure, any other exception, or the
\* run being stopped), processing is false once the handler has been left, and
\* it is false at the end of every script run.
C1_GuaranteedRelease ==
    (AnalyzeDone \/ (pc \in {"end", "idle"} /\ status # "none")) => ~Processing

\* an Analyze action that acquired the flag and failed in rendering has been left
C1_Witness ==
    /\ AnalyzeDone
    /\ \E i \in 1..Len(out) : out[i] = ErrorEl("TypeError")
    /\ ~Processing

\* C2: whenever processing is true, the action triggers presented to the user
\* are disabled.
C2_TriggersDisabledWhileProcessing ==
    ("processing" \in DOMAIN session_state /\ Processing)
        => \A b \in Buttons : page[b] # "enabled"

\* C3: an Analyze action that passed validation ends in exactly one of: the
\* complete result and no error message, or exactly one error message and no
\* part of the result; processing is false either way.
C3_ResultOrSingleError ==
    AnalyzeDone =>
        /\ ~Processing
        /\ \/ FullResult /\ Count("error") = 0
           \/ Count("error") = 1 /\ \A i \in 1..Len(out) : out[i].el \notin ResultKinds

\* C4: a Generate Cover Letter trigger with company name and job title given
\* builds the prompt and calls the API client exactly once, and the text the
\* call returns is displayed and offered as cover_letter.txt, also in a run in
\* which Analyze did not run.
C4_CoverLetterGenerated ==
    (/\ pc = "end" /\ status = "completed" /\ "cover" \in trig
     /\ company_name \notin {"", Unset} /\ job_title \notin {"", Unset})
        => /\ cover_letter_prompt # <<>>
           /\ api_calls["cover"] = 1
           /\ cover_letter # Unset =>
                 /\ \E i \in 1..Len(out) : out[i] = WriteEl(StrV(cover_letter))
                 /\ out[Len(out)] = DownloadEl(cover_letter)

\* C5: an Analyze trigger with an empty job description or no uploaded file
\* calls neither the extractor nor the API client and never sets processing;
\* the run ends at the one warning (unless it is stopped for a rerun first).
C5_AnalyzeValidationFailure ==
    ("analyze" \in trig /\ "analyze" \in rendered /\ (jd = "" \/ uploaded_file = NoFile))
        => /\ pc \in {"an_validate", "end"}
           /\ extract_calls = 0
           /\ \A b \in Buttons : api_calls[b] = 0
           /\ outstanding = 0
           /\ ~Processing
           /\ (pc = "end" /\ status # "interrupted")
                 => status = "returned" /\ Len(out) = 1 /\ out[1].el = "warning"

C5_Witness ==
    /\ pc = "end" /\ status = "returned" /\ "analyze" \in trig
    /\ jd # "" /\ uploaded_file = NoFile
    /\ out = <<WarningEl("Please upload a resume in PDF format.")>>

\* C6: a Generate Cover Letter trigger with an empty company name or an empty
\* job title makes no API client call and never sets processing; the run ends
\* at the one warning (unless it is stopped for a rerun first).
C6_CoverValidationFailure ==
    ("cover" \in trig /\ "cover" \in rendered /\ (company_name = "" \/ job_title = ""))
        => /\ pc \in {"cl_validate", "end"}
           /\ api_calls["cover"] = 0
           /\ outstanding = 0
           /\ ~Processing
           /\ (pc = "end" /\ status # "interrupted")
                 => /\ status = "returned"
                    /\ Count("warning") = 1
                    /\ out[Len(out)].el = "warning"

C6_Witness ==
    /\ pc = "end" /\ status = "returned" /\ "cover" \in trig /\ "cover" \in rendered
    /\ company_name # "" /\ job_title = ""
    /\ out[Len(out)].el = "warning"

\* C7: a reply that is not valid JSON (fenced, wrapped in prose, cut short)
\* ends the Analyze action in the error outcome: the error message is shown,
\* no default value is computed and no result widget is rendered.
C7_NotJsonIsAnError ==
    (response \in NotJsonReplies /\ pc # "an_parse")
        => /\ response_json = NoValue
           /\ match_percentage = NoValue
           /\ missing_keywords = NoValue
           /\ Count("success") = 0 /\ Count("metric") = 0
           /\ status # "interrupted" => Len(out) >= 1 /\ out[1] = ErrorEl("JSONDecodeError")
           /\ AnalyzeDone => Len(out) = 1

C7_Witness ==
    /\ AnalyzeDone
    /\ response = Fenced(Dumps(GoodReply))
    /\ out = <<ErrorEl("JSONDecodeError")>>

\* v is what the reply's object holds under key, or the default when it holds
\* nothing under key
Degrades(o, key, default, v) ==
    /\ (\A i \in 1..Len(o) : o[i].k # key) => v = default
    /\ \A i \in 1..Len(o) : o[i].k = key => v = o[i].v
Present(o, key) == \E i \in 1..Len(o) : o[i].k = key

\* C8: when the reply decodes to a JSON object, an absent "JD Match" gives
\* "N/A", an absent "MissingKeywords" the empty list, an absent "Profile
\* Summary" "No summary available"; a key that is present gives its value
\* unchanged; and an absent key never makes the action fail.
C8_AbsentKeysDegrade ==
    response_json.t = "obj" =>
        LET o == response_json.o IN
        /\ match_percentage.t # "unset"
              => Degrades(o, "JD Match", StrV("N/A"), match_percentage)
        /\ missing_keywords.t # "unset"
              => Degrades(o, "MissingKeywords", ListV(<<>>), missing_keywords)
        /\ (AnalyzeDone /\ Count("error") = 0)
              => /\ FullResult
                 /\ out[2] = MetricEl(match_percentage)
                 /\ Degrades(o, "Profile Summary", StrV("No summary available"), out[6].arg)
        /\ (AnalyzeDone /\ Count("error") > 0)
              => IF missing_keywords.t = "unset"
                 THEN Present(o, "JD Match")
                 ELSE Present(o, "MissingKeywords")

\* a reply with none of the three keys is rendered complete, from the defaults
C8_Witness ==
    /\ AnalyzeDone
    /\ response_json = ObjV(EmptyObj)
    /\ out = <<SuccessEl, MetricEl(StrV("N/A")), SubheaderEl("Missing Keywords"),
               WriteEl(StrV("No critical missing keywords found!")),
               SubheaderEl("Profile Summary"), WriteEl(StrV("No summary available"))>>

\* C9: with the API key absent or empty, or configure_genai raising, the form
\* is never rendered: no trigger exists, no extractor or API client call is
\* made, processing stays false, and the run ends at the one error (unless it
\* is stopped for a rerun first).
C9_ConfigurationFailureHalts ==
    (GOOGLE_API_KEY = "" \/ ~key_accepted)
        => /\ pc \in {"idle", "init", "end"}
           /\ \A e \in Elements : page[e] = "absent"
           /\ rendered = {}
           /\ extract_calls = 0
           /\ \A b \in Buttons : api_calls[b] = 0
           /\ outstanding = 0
           /\ "processing" \in DOMAIN session_state => ~Processing
           /\ (pc = "end" /\ status # "interrupted")
                 => status = "halted" /\ Len(out) = 1 /\ out[1].el = "error"

C9_Witness ==
    /\ pc = "end" /\ status = "halted"
    /\ GOOGLE_API_KEY = "key" /\ ~key_accepted
    /\ out = <<ErrorEl("Failed to configure API")>>
    /\ ~Processing

\* the positions inside the try statement of a handler
AnalyzeInFlight ==
    {"an_spinner", "an_extract", "an_call", "an_wait", "an_parse", "an_success",
     "an_metric", "an_kw_header", "an_kw", "an_sum_header", "an_summary"}
CoverInFlight ==
    {"cl_spinner", "cl_prompt", "cl_call", "cl_wait", "cl_header", "cl_write",
     "cl_download"}

NoSecondCall ==
    /\ \A b \in Buttons :
          api_calls'[b] > api_calls[b]
             => /\ b \in trig
                /\ api_calls[b] = 0
                /\ api_calls'[b] = 1
                /\ pc = (IF b = "analyze" THEN "an_call" ELSE "cl_call")
    /\ api_calls'["analyze"] > api_calls["analyze"] => Count("error") = 0
    /\ extract_calls' > extract_calls
          => /\ "analyze" \in trig
             /\ extract_calls = 0
             /\ Count("error") = 0
    /\ (pc \in {"end", "idle"} /\ pc' \in {"end", "idle"})
          => api_calls' = api_calls /\ extract_calls' = extract_calls

\* C11: no automatic retry. A step that calls the API client is the first such
\* call of its handler in the run, the handler's button was clicked for this
\* run, and the Analyze handler has shown no error before it; likewise for the
\* extractor. So a failed action calls nothing more until a new click.
C11_NoAutomaticRetry ==
    [][NoSecondCall]_vars

\* the model call of an Analyze action failed after its one call
C11_Witness ==
    /\ AnalyzeDone
    /\ api_calls["analyze"] = 1
    /\ extract_calls = 1
    /\ out = <<ErrorEl("GenerationError")>>

\* C13: on the Analyze path each step starts only after the one before it
\* succeeded: prompt after extraction, call after prompt, parse after call,
\* render after parse. When extraction fails the API client is not called, the
\* error is shown (unless the run is stopped first) and processing is released.
C13_AnalyzeStepsInOrder ==
    pc # "idle" =>
        /\ extract_calls <= 1
        /\ resume_text # Unset => extract_calls = 1 /\ uploaded_file = "resume.pdf"
        /\ input_prompt # <<>>
              => resume_text # Unset /\ input_prompt = <<"analysis", resume_text, jd>>
        /\ api_calls["analyze"] > 0 => input_prompt # <<>>
        /\ response # NoText => api_calls["analyze"] = 1
        /\ response_json.t # "unset" => response # NoText /\ response \notin NotJsonReplies
        /\ (Count("success") > 0 \/ Count("metric") > 0) => response_json.t # "unset"
        /\ (uploaded_file = "corrupt.pdf" /\ extract_calls = 1)
              => /\ resume_text = Unset
                 /\ api_calls["analyze"] = 0
                 /\ outstanding = 0
                 /\ pc \notin CoverInFlight => ~Processing
                 /\ Count("success") = 0
                 /\ status # "interrupted"
                       => Len(out) >= 1 /\ out[1] = ErrorEl("ExtractionError")

C13_Witness ==
    /\ AnalyzeDone
    /\ uploaded_file = "corrupt.pdf"
    /\ extract_calls = 1
    /\ api_calls["analyze"] = 0
    /\ out = <<ErrorEl("ExtractionError")>>
    /\ ~Processing

HasFlag == "processing" \in DOMAIN session_state
FlagHeld == HasFlag /\ Processing

\* the flag is held only inside a handler's try statement, and
\* init_session_state leaves a value that exists as it is, true or false
FlagOnlyInFlight ==
    /\ status = "none" => ~FlagHeld
    /\ FlagHeld => pc \in AnalyzeInFlight \cup CoverInFlight
    /\ \A v \in BOOLEAN :
          init_session_state([k \in {"processing"} |-> v]) = [k \in {"processing"} |-> v]

\* the flag becomes true only in the validation step of a clicked handler
\* whose inputs are all there, and start-up leaves an existing flag alone
FlagSetOnlyByValidTrigger ==
    /\ (FlagHeld' /\ ~FlagHeld)
          => \/ /\ pc = "an_validate" /\ "analyze" \in trig
                /\ jd # "" /\ uploaded_file # NoFile
             \/ /\ pc = "cl_validate" /\ "cover" \in trig
                /\ company_name # "" /\ job_title # ""
    /\ (pc = "init" /\ HasFlag) => session_state' = session_state
    /\ HasFlag => HasFlag'

\* C14: processing is true only while an action is in flight: not at start-up,
\* not when idle, not during or after a failed validation, not after a
\* configuration failure; only a trigger that passed validation sets it, and
\* init_session_state never changes a value that exists.
C14_ProcessingOnlyInFlight ==
    []FlagOnlyInFlight /\ [][FlagSetOnlyByValidTrigger]_vars

\* the flag is held while the cover-letter call is outstanding
C14_Witness ==
    /\ pc = "cl_wait"
    /\ FlagHeld
    /\ outstanding = 1

\* a run whose Analyze trigger failed validation never reaches the Generate
\* Cover Letter button
EndsAtAnalyzeWarning ==
    ("analyze" \in trig /\ "analyze" \in rendered /\ (jd = "" \/ uploaded_file = NoFile))
        => /\ pc \in {"an_validate", "end"}
           /\ "cover" \notin rendered
           /\ cover_letter_prompt = <<>>
           /\ \A b \in Buttons : api_calls[b] = 0
           /\ pc = "end" => status \in {"returned", "interrupted"}

\* a run whose Analyze handler was left goes on to render the button, enabled;
\* a run that returned at the warning leaves no such button on the page
GoesOnAfterAnalyze ==
    /\ (AnalyzeDone /\ pc' # pc /\ status' # "interrupted")
          => /\ ~Processing
             /\ "cover" \in rendered'
             /\ page'["cover"] = "enabled"
    /\ (pc = "end" /\ pc' = "idle" /\ status = "returned" /\ "cover" \notin rendered)
          => page'["cover"] = "absent"

\* C15: when Analyze is triggered and fails validation the run ends at the
\* warning: the Generate Cover Letter trigger is neither rendered nor
\* evaluated, so no cover-letter prompt is built and no API client call is
\* made, even with that button clicked and company name and job title given;
\* when Analyze completes, the run goes on and renders that trigger with
\* processing false.
C15_ValidationReturnSkipsCoverLetter ==
    []EndsAtAnalyzeWarning /\ [][GoesOnAfterAnalyze]_vars

\* both buttons clicked, cover-letter inputs given, Analyze fails validation
C15_Witness ==
    /\ pc = "end" /\ status = "returned"
    /\ trig = {"analyze", "cover"}
    /\ company_name = "Acme" /\ job_title = "Engineer"
    /\ jd = ""
    /\ "cover" \notin rendered
    /\ api_calls["cover"] = 0
    /\ Count("warning") = 1

\* an Analyze that ran before, under the stub, with the inputs of this run
AnalyzedBefore ==
    /\ stub.kind # "any"
    /\ prev.count > 0
    /\ prev.jd = jd
    /\ prev.uploaded_file = uploaded_file

\* the step on which the Analyze handler is left shows what the Analyze before
\* showed and leaves the session state that one left
SameOutcomeAgain ==
    (~AnalyzeDone /\ AnalyzeDone' /\ AnalyzedBefore)
        => /\ out' = prev.out
           /\ session_state' = prev.ss
           /\ prev'.out = prev.out /\ prev'.ss = prev.ss

\* C12: Analyze is idempotent under a deterministic model stub. An Analyze
\* that runs to the end of its handler with the job description and the file
\* of the Analyze before it displays the same outcome (the same match score,
\* keyword sequence and summary, or the same error), and leaves the session
\* state the first one left.
C12_AnalyzeIdempotent == [][SameOutcomeAgain]_vars

\* a second Analyze with the same inputs has shown the full result again
C12_Witness ==
    /\ AnalyzeDone
    /\ AnalyzedBefore
    /\ prev.count = 2
    /\ FullResult
    /\ out = prev.out

\* a second Analyze has repeated the error of the first
C12_WitnessError ==
    /\ AnalyzeDone
    /\ AnalyzedBefore
    /\ prev.count = 2
    /\ Count("error") = 1
    /\ stub.kind = "reply"
====
